---------------------------- MODULE Spec2Model ----------------------------
(***************************************************************************)
(* A model of the bulk pipeline of the TikTok video transcriber:           *)
(*   video_downloader.py  TikTokDownloader.download_video (retry loop)     *)
(*   transcriber.py       VideoTranscriber (model life cycle,              *)
(*                        extract_audio / transcribe_audio /               *)
(*                        transcribe_video)                                *)
(*   app.py               process_videos (download phase, transcription    *)
(*                        phase, publication in the session, cleanup)      *)
(*                                                                         *)
(* Error messages are sequences of words; the substring tests of the code  *)
(* ('private video' in error_msg) are tests for a contiguous run of words  *)
(* in the lowercased message.  A Python dict is a TLA+ record (a function  *)
(* from keys to values); {**a, **b} is Merge(a, b).  A file is named by    *)
(* the pair <<stem, extension>>.                                           *)
(***************************************************************************)
EXTENDS Integers, Sequences, FiniteSets, TLC

VARIABLES
    \* ---- the file system ------------------------------------------------
    output_dir,        \* files under TikTokDownloader.output_dir
    temp_dir,          \* files under VideoTranscriber.temp_dir
    \* ---- the frame of TikTokDownloader.download_video -------------------
    dl_pc,             \* "idle" | "loop" | "failed" | "returned"
    dl_url,            \* argument url
    max_retries,       \* argument max_retries
    attempt,           \* loop variable of  for attempt in range(max_retries)
    last_error,        \* local last_error (None or a message)
    error_type,        \* local error_type (Unset while not in locals())
    dl_log,            \* the outcome of each ydl.extract_info call of this call:
                       \* the message raised, or Ok
    dl_sleeps,         \* the time.sleep calls made: <<attempt, delay in tenths of a second>>
    dl_ret,            \* the returned DownloadRecord
    \* ---- the VideoTranscriber object ------------------------------------
    tr_alive,          \* an object exists (its constructor returned)
    model_size,        \* self.model_size
    model,             \* self.model: None or the tier whose weights it holds
    load_failed,       \* the last _load_model call raised
    \* ---- the frame of VideoTranscriber.transcribe_video -----------------
    tr_pc,             \* "idle" | "extracted" | "recognized" | "returned"
    video_path,        \* argument video_path
    audio_path,        \* local audio_path (None or a file)
    tr_result,         \* local result (None or a TranscriptionRecord)
    tr_engine,         \* the model the engine ran on in this call (None: no run)
    tr_unlink,         \* "none" | "ok" | "error": the os.unlink of this call
    tr_ret,            \* the returned value
    \* ---- the frame of process_videos and the session --------------------
    pc,                \* position in process_videos
    urls,              \* argument urls
    download_results,  \* local download_results
    successful_downloads, \* local successful_downloads (line 296)
    transcription_results, \* local transcription_results
    ti,                \* index in the loop over successful_downloads
    progress,          \* the fractions given to progress_bar.progress, as <<num, den>>
    transcribed,       \* the video paths transcribe_video was called on
    cleanups,          \* the cleanup operations invoked, in order
    surfaced,          \* the error shown by st.error (None: none)
    session,           \* st.session_state
    cleanup_err,       \* the cleanup calls that logged an error (their except branch ran)
    \* ---- the frame of TikTokDownloader.download_bulk --------------------
    bulk_pc,           \* "idle" | "loop" | "returned"
    bulk_urls,         \* argument urls
    bulk_results,      \* local results
    bulk_calls,        \* the urls download_video was called on, in order
    \* ---- the results tabs and the pure functions -----------------------
    summary,           \* the metrics display_results shows (None: none shown)
    archive,           \* the entries of the zip file of create_srt_zip_export
    seconds,           \* argument of format_timestamp
    timestamp,         \* its value (None: not called)
    text,              \* argument of extract_urls_from_text
    extracted,         \* its value (None: not called)
    \* ---- the Input tab of main -----------------------------------------
    input_method,      \* the input method whose text was read ("none": none yet)
    main_urls          \* local urls of main, handed to process_videos

dl_vars == <<dl_pc, dl_url, max_retries, attempt, last_error, error_type,
             dl_log, dl_sleeps, dl_ret>>
obj_vars == <<tr_alive, model_size, model, load_failed>>
tr_vars == <<tr_pc, video_path, audio_path, tr_result, tr_engine, tr_unlink, tr_ret>>
app_vars == <<pc, urls, download_results, successful_downloads,
              transcription_results, ti, progress, transcribed, cleanups,
              surfaced, session>>
fs_vars == <<output_dir, temp_dir>>
bulk_vars == <<bulk_pc, bulk_urls, bulk_results, bulk_calls>>
view_vars == <<summary, archive, seconds, timestamp, text, extracted,
               input_method, main_urls>>
more_vars == <<cleanup_err, bulk_vars, view_vars>>
vars == <<fs_vars, dl_vars, obj_vars, tr_vars, app_vars, more_vars>>

-----------------------------------------------------------------------------
(* Bounds of the model *)

\* the longest url list handed to process_videos
MaxUrls == 2
\* the largest max_retries a direct caller of download_video passes
MaxRetriesArg == 4
\* the largest number of seconds given to format_timestamp
MaxSeconds == 6100
\* the largest number of ResultRecords a session holds when it is displayed
MaxResults == 3
\* the largest number of lines of a pasted text or an uploaded file
MaxLines == 3
\* the largest number of urls given to download_bulk
MaxBulk == 2
\* the largest number of cleanup calls made in a row on the two directories
MaxCleanups == 3
\* the largest number of whitespace-separated tokens of a text given to
\* extract_urls_from_text
MaxTokens == 3

(* Program constants *)

\* download_video(self, url, max_retries: int = 3)
DefaultMaxRetries == 3

\* Python's None, for a local that otherwise holds a dict, a path or a message
None == <<>>
\* self.model = None
NoModel == "None"
\* a local that is not yet in locals()
Unset == "Unset"

-----------------------------------------------------------------------------
(* Python dicts *)

\* d.get(k, default)
Get(d, k, default) == IF k \in DOMAIN d THEN d[k] ELSE default

\* {**a, **b}: the keys of both, b's value where both have the key
Merge(a, b) ==
    [k \in (DOMAIN a) \cup (DOMAIN b) |-> IF k \in DOMAIN b THEN b[k] ELSE a[k]]

-----------------------------------------------------------------------------
(* Error messages and their classification (download_video, lines 106-129) *)

\* str.lower() on the words the backend's messages use
LowerWord(w) ==
    CASE w = "Private" -> "private"
      [] w = "Video" -> "video"
      [] w = "Unavailable" -> "unavailable"
      [] w = "Network" -> "network"
      [] w = "Deleted" -> "deleted"
      [] OTHER -> w

Lower(msg) == [k \in 1..Len(msg) |-> LowerWord(msg[k])]

\* keyword in error_msg
Contains(msg, keyword) ==
    \E k \in 1..(Len(msg) - Len(keyword) + 1) :
        SubSeq(msg, k, k + Len(keyword) - 1) = keyword

KwBlocked == <<"unable", "to", "extract", "webpage", "video", "data">>
KwUnavailable == <<"video", "unavailable">>
KwPrivate == <<"private", "video">>
KwNetwork == <<"network">>
KwConnection == <<"connection">>
KwRateLimit == <<"rate", "limit">>
KwTooMany == <<"too", "many", "requests">>
KwDeleted == <<"deleted">>

TypeBlocked == "TikTok blocked extraction - video may be private or region-locked"
TypeUnavailable == "Video is unavailable or has been deleted"
TypePrivate == "Video is private and cannot be accessed"
TypeNetwork == "Network connection error"
TypeRateLimited == "Rate limited - too many requests"
TypeUnknown == "Unknown extraction error"

\* the if/elif chain of lines 111-122, on the lowercased message
Classify(error_msg) ==
    IF Contains(error_msg, KwBlocked) THEN TypeBlocked
    ELSE IF Contains(error_msg, KwUnavailable) THEN TypeUnavailable
    ELSE IF Contains(error_msg, KwPrivate) THEN TypePrivate
    ELSE IF Contains(error_msg, KwNetwork) \/ Contains(error_msg, KwConnection)
         THEN TypeNetwork
    ELSE IF Contains(error_msg, KwRateLimit) \/ Contains(error_msg, KwTooMany)
         THEN TypeRateLimited
    ELSE TypeUnknown

\* a mutant of IsPermanent: the keyword 'private video' is not in the list
IsPermanentNoPrivate(error_msg) ==
    \E keyword \in {KwUnavailable, KwDeleted} : Contains(error_msg, keyword)

\* line 127: any(keyword in error_msg for keyword in [...])
IsPermanent(error_msg) ==
    \E keyword \in {KwPrivate, KwUnavailable, KwDeleted} :
        Contains(error_msg, keyword)

\* the messages the download backend raises, in the model
ErrorMessages ==
    { <<"Private", "video">>,
      <<"video", "unavailable">>,
      <<"unable", "to", "extract", "webpage", "video", "data">>,
      <<"unable", "to", "extract", "webpage", "video", "data", "private", "video">>,
      <<"network", "unreachable">>,
      <<"too", "many", "requests">>,
      <<"http", "error">>,
      <<"video", "Deleted">> }

\* the outcome of an extract_info call that returned
Ok == <<"ok">>

\* the metadata the backend returns for a video (info), in the model
Infos ==
    { [title |-> "clip", duration |-> 30],
      [title |-> "dance", duration |-> 12] }

Urls == { "https://www.tiktok.com/@a/video/1", "https://vm.tiktok.com/b" }

\* ydl.prepare_filename(info) under outtmpl '%(title)s.%(ext)s', format mp4
PrepareFilename(info) == <<info.title, "mp4">>

-----------------------------------------------------------------------------
(* TikTokDownloader.download_video (video_downloader.py, lines 40-139) *)

\* the dict returned at lines 86-104; of the metadata copied from info the
\* model keeps title and duration
SuccessRecord(url, info, attempts) ==
    [url |-> url, title |-> info.title, duration |-> info.duration,
     filename |-> PrepareFilename(info), success |-> TRUE, attempts |-> attempts]

\* str(last_error)
Str(err) == IF err = None THEN <<"None">> ELSE err

\* the dict returned at lines 133-139
FailureRecord(url, err, etype, mr) ==
    [url |-> url, error |-> Str(err),
     error_type |-> IF etype = Unset THEN "Unknown error" ELSE etype,
     success |-> FALSE, attempts |-> mr]

\* lines 51-53: the call, up to the loop
DlCall(url, mr) ==
    /\ dl_pc = "idle"
    /\ dl_pc' = "loop"
    /\ dl_url' = url
    /\ max_retries' = mr
    /\ attempt' = 0
    /\ last_error' = None
    /\ error_type' = Unset
    /\ dl_log' = <<>>
    /\ dl_sleeps' = <<>>
    /\ dl_ret' = None

\* random.uniform(1, 3), in tenths: a + (b - a) * random() lies in [1, 3], and
\* the rounding of the sum can give the end point 3.0; the model draws the two
\* end points and one value between them
UniformDraws == {10, 20, 30}

\* a mutant of NeedsDelay: the first attempt is delayed too
NeedsDelayAlways == TRUE

\* line 56
NeedsDelay == attempt > 0

\* lines 56-59; u: the number random.uniform(1, 3) returned
SleepBeforeRetry(u) ==
    IF NeedsDelay THEN Append(dl_sleeps, <<attempt, u * attempt>>) ELSE dl_sleeps

\* one iteration of the loop in which extract_info returns info: lines 54-104
DlAttemptSucceeds(info) ==
    /\ dl_pc = "loop"
    /\ attempt < max_retries
    /\ \E u \in UniformDraws : dl_sleeps' = SleepBeforeRetry(u)
    /\ dl_log' = Append(dl_log, Ok)
    /\ output_dir' = output_dir \cup {PrepareFilename(info)}
    /\ dl_ret' = SuccessRecord(dl_url, info, attempt + 1)
    /\ dl_pc' = "returned"
    /\ UNCHANGED <<dl_url, max_retries, attempt, last_error, error_type>>
    /\ UNCHANGED <<temp_dir, obj_vars, tr_vars, app_vars>>
    /\ UNCHANGED more_vars

\* one iteration of the loop in which the attempt raises e: lines 54-63, 106-129
DlAttemptFails(e) ==
    /\ dl_pc = "loop"
    /\ attempt < max_retries
    /\ \E u \in UniformDraws : dl_sleeps' = SleepBeforeRetry(u)
    /\ dl_log' = Append(dl_log, e)
    /\ last_error' = e
    /\ error_type' = Classify(Lower(e))
    /\ IF IsPermanent(Lower(e))
       THEN /\ dl_pc' = "failed"          \* break
            /\ attempt' = attempt
       ELSE /\ dl_pc' = "loop"
            /\ attempt' = attempt + 1
    /\ UNCHANGED <<dl_url, max_retries, dl_ret>>
    /\ UNCHANGED <<fs_vars, obj_vars, tr_vars, app_vars>>
    /\ UNCHANGED more_vars

\* lines 131-139: after the loop (broken out of, or exhausted)
DlReturnFailure ==
    /\ \/ dl_pc = "failed"
       \/ dl_pc = "loop" /\ attempt >= max_retries
    /\ dl_ret' = FailureRecord(dl_url, last_error, error_type, max_retries)
    /\ dl_pc' = "returned"
    /\ UNCHANGED <<dl_url, max_retries, attempt, last_error, error_type,
                   dl_log, dl_sleeps>>
    /\ UNCHANGED <<fs_vars, obj_vars, tr_vars, app_vars>>
    /\ UNCHANGED more_vars

-----------------------------------------------------------------------------
(* VideoTranscriber (transcriber.py) *)

\* get_available_models, line 191
AvailableModels == {"tiny", "base", "small", "medium", "large"}

\* the model sizes callers pass: the available ones and one that is not
ModelSizes == AvailableModels \cup {"huge"}

\* a video file name's stem with the extension wav, line 57
AudioPathOf(path) == <<path[1], "wav">>

\* str.strip() on a text given as a sequence of words, " " being white space
RECURSIVE LStrip(_)
LStrip(t) == IF t # <<>> /\ Head(t) = " " THEN LStrip(Tail(t)) ELSE t

RECURSIVE RStrip(_)
RStrip(t) ==
    IF t # <<>> /\ t[Len(t)] = " " THEN RStrip(SubSeq(t, 1, Len(t) - 1)) ELSE t

Strip(t) == RStrip(LStrip(t))

\* what the speech recognition engine returns (model.transcribe), in the model
EngineResults ==
    { [text |-> <<" ", "hello", " ", "world">>, language |-> "en",
       segments |-> << [start |-> 0, end |-> 4, text |-> <<" ", "hello">>],
                       [start |-> 4, end |-> 9, text |-> <<" ", "world">>] >>],
      [text |-> <<>>, language |-> "id", segments |-> <<>>] }

\* lines 100-114: the TranscriptionRecord built from the engine's result
TranscriptionRecord(result) ==
    LET segments == [k \in 1..Len(result.segments) |->
                        [start |-> result.segments[k].start,
                         end |-> result.segments[k].end,
                         text |-> Strip(result.segments[k].text)]]
    IN [text |-> Strip(result.text),
        language |-> Get(result, "language", "unknown"),
        segments |-> segments,
        duration |-> IF segments # <<>> THEN segments[Len(segments)].end ELSE 0]

\* __init__ (lines 15-28) with _load_model (lines 30-38); ok: load_model returned.
\* A size that is not a model name makes whisper.load_model raise.
Construct(size, ok) ==
    /\ ~tr_alive
    /\ ok => size \in AvailableModels
    /\ model_size' = size
    /\ IF ok
       THEN /\ model' = size
            /\ tr_alive' = TRUE
            /\ load_failed' = FALSE
       ELSE /\ model' = NoModel     \* the constructor raises: no object
            /\ tr_alive' = FALSE
            /\ load_failed' = TRUE

\* change_model (lines 193-199) with _load_model (lines 30-38)
ChangeModel(size, ok) ==
    /\ tr_alive
    /\ tr_pc = "idle"
    /\ IF size \in AvailableModels
       THEN /\ model_size' = size
            /\ IF ok
               THEN /\ model' = size
                    /\ load_failed' = FALSE
               ELSE /\ model' = model      \* line 34 raised before assigning
                    /\ load_failed' = TRUE
       ELSE \* ValueError: nothing is loaded, nothing changes
            /\ ~ok
            /\ UNCHANGED <<model_size, model, load_failed>>
    /\ UNCHANGED tr_alive

\* transcribe_video, line 134: the call
TrCall(path) ==
    /\ tr_alive
    /\ tr_pc = "idle"
    /\ tr_pc' = "called"
    /\ video_path' = path
    /\ audio_path' = None
    /\ tr_result' = None
    /\ tr_engine' = NoModel
    /\ tr_unlink' = "none"
    /\ tr_ret' = None

\* lines 136-138 with extract_audio (lines 40-73); ok: ffmpeg ran to the end;
\* partial: a failing ffmpeg left a partly written output file
TrExtractAudio(ok, partial) ==
    /\ tr_pc = "called"
    /\ IF video_path \notin output_dir
       THEN \* lines 52-54: return None
            /\ ~ok /\ ~partial
            /\ temp_dir' = temp_dir
            /\ audio_path' = None
       ELSE IF ok
       THEN /\ ~partial
            /\ temp_dir' = temp_dir \cup {AudioPathOf(video_path)}
            /\ audio_path' = AudioPathOf(video_path)
       ELSE \* lines 71-73: return None
            /\ temp_dir' = IF partial THEN temp_dir \cup {AudioPathOf(video_path)}
                           ELSE temp_dir
            /\ audio_path' = None
    /\ IF audio_path' = None
       THEN tr_pc' = "returned" /\ tr_ret' = None    \* lines 137-138
       ELSE tr_pc' = "extracted" /\ tr_ret' = tr_ret
    /\ UNCHANGED <<video_path, tr_result, tr_engine, tr_unlink>>
    /\ UNCHANGED <<output_dir, dl_vars, obj_vars, app_vars>>
    /\ UNCHANGED more_vars

\* line 141 with transcribe_audio (lines 75-121); the engine returns r or, with
\* ok false, raises
TrTranscribeAudio(ok, r) ==
    /\ tr_pc = "extracted"
    /\ IF model = NoModel
       THEN \* lines 87-89
            /\ ~ok
            /\ tr_result' = None
            /\ tr_engine' = NoModel
       ELSE /\ tr_engine' = model
            /\ tr_result' = IF ok THEN TranscriptionRecord(r) ELSE None
    /\ tr_pc' = "recognized"
    /\ UNCHANGED <<video_path, audio_path, tr_unlink, tr_ret>>
    /\ UNCHANGED <<fs_vars, dl_vars, obj_vars, app_vars>>
    /\ UNCHANGED more_vars

\* a mutant of UnlinkAttempted: the audio file is unlinked only after a
\* successful transcription
UnlinkAttemptedOnSuccessOnly == tr_result # None

\* lines 143-147: os.unlink(audio_path) is called whatever result is
UnlinkAttempted == TRUE

\* lines 143-149: unlink the audio file (ok: os.unlink did not raise) and return
TrUnlinkAndReturn(ok) ==
    /\ tr_pc = "recognized"
    /\ IF UnlinkAttempted
       THEN /\ temp_dir' = IF ok THEN temp_dir \ {audio_path} ELSE temp_dir
            /\ tr_unlink' = IF ok THEN "ok" ELSE "error"
       ELSE /\ ok
            /\ temp_dir' = temp_dir
            /\ tr_unlink' = "none"
    /\ tr_ret' = tr_result
    /\ tr_pc' = "returned"
    /\ UNCHANGED <<video_path, audio_path, tr_result, tr_engine>>
    /\ UNCHANGED <<output_dir, dl_vars, obj_vars, app_vars>>
    /\ UNCHANGED more_vars

-----------------------------------------------------------------------------
(* The initial state: a TikTokDownloader exists, no call is running *)

\* initialize_session_state, app.py lines 61-68
FreshSession ==
    [transcription_results |-> <<>>, download_results |-> <<>>,
     processing_complete |-> FALSE]

InitFrames ==
    /\ dl_pc = "idle" /\ dl_url = "" /\ max_retries = 0 /\ attempt = 0
    /\ last_error = None /\ error_type = Unset
    /\ dl_log = <<>> /\ dl_sleeps = <<>> /\ dl_ret = None
    /\ tr_pc = "idle" /\ video_path = None /\ audio_path = None
    /\ tr_result = None /\ tr_engine = NoModel /\ tr_unlink = "none"
    /\ tr_ret = None
    /\ pc = "idle" /\ urls = <<>> /\ download_results = <<>>
    /\ successful_downloads = <<>> /\ transcription_results = <<>>
    /\ ti = 0 /\ progress = <<>> /\ transcribed = <<>> /\ cleanups = <<>>
    /\ surfaced = None
    /\ cleanup_err = <<>>
    /\ bulk_pc = "idle" /\ bulk_urls = <<>> /\ bulk_results = <<>> /\ bulk_calls = <<>>
    /\ summary = None /\ archive = None
    /\ seconds = 0 /\ timestamp = None /\ text = <<>> /\ extracted = None
    /\ input_method = "none" /\ main_urls = <<>>

\* the frame of download_video is gone once its caller has the record
DlFrameGone ==
    /\ dl_pc' = "idle" /\ dl_url' = "" /\ max_retries' = 0 /\ attempt' = 0
    /\ last_error' = None /\ error_type' = Unset
    /\ dl_log' = <<>> /\ dl_sleeps' = <<>> /\ dl_ret' = None

\* the frame of transcribe_video is gone once its caller has the result
TrFrameGone ==
    /\ tr_pc' = "idle" /\ video_path' = None /\ audio_path' = None
    /\ tr_result' = None /\ tr_engine' = NoModel /\ tr_unlink' = "none"
    /\ tr_ret' = None

-----------------------------------------------------------------------------
(* SpecDownload: download_video called directly, with any max_retries *)

InitDownload ==
    /\ InitFrames
    /\ output_dir = {} /\ temp_dir = {}
    /\ tr_alive = FALSE /\ model_size = "base" /\ model = NoModel
    /\ load_failed = FALSE
    /\ session = FreshSession

\* a caller calls download_video(url, max_retries)
CallDownloadVideo ==
    /\ \E url \in Urls, mr \in 0..MaxRetriesArg : DlCall(url, mr)
    /\ UNCHANGED <<fs_vars, obj_vars, tr_vars, app_vars>>
    /\ UNCHANGED more_vars

\* an attempt of the running call returns the video
AttemptSucceeds == \E info \in Infos : DlAttemptSucceeds(info)

\* an attempt of the running call raises
AttemptFails == \E e \in ErrorMessages : DlAttemptFails(e)

\* the caller has the record; the downloader is free for the next call
TakeDownloadRecord ==
    /\ dl_pc = "returned"
    /\ DlFrameGone
    /\ UNCHANGED <<fs_vars, obj_vars, tr_vars, app_vars>>
    /\ UNCHANGED more_vars

NextDownload ==
    \/ CallDownloadVideo
    \/ AttemptSucceeds
    \/ AttemptFails
    \/ DlReturnFailure
    \/ TakeDownloadRecord

SpecDownload == InitDownload /\ [][NextDownload]_vars

\* the categories of the claims, from the error_type strings of the code
IsUnavailableType(t) == t \in {TypeUnavailable, TypePrivate}

FirstAttemptPrivate ==
    /\ dl_log # <<>>
    /\ dl_log[1] # Ok
    /\ Contains(Lower(dl_log[1]), KwPrivate)

\* C1: a call of download_video whose first attempt raises an error whose
\* message contains "private video" makes that one attempt only, whatever
\* max_retries >= 1 is: it never sleeps, never calls the backend again, and
\* returns a failure record.
C1_PrivateVideoOneAttempt ==
    FirstAttemptPrivate =>
        /\ max_retries >= 1
        /\ Len(dl_log) = 1
        /\ dl_sleeps = <<>>
        /\ dl_pc \in {"failed", "returned"}
        /\ dl_pc = "returned" => ~dl_ret.success

C1_Witness ==
    /\ FirstAttemptPrivate
    /\ dl_pc = "returned"
    /\ max_retries = MaxRetriesArg
    /\ ~dl_ret.success

\* C2: every record download_video returns carries the number of attempts
\* actually made: the index of the succeeding attempt, or on failure the number
\* of attempts reached.
C2_AttemptsAreAttemptsMade ==
    dl_pc = "returned" => dl_ret.attempts = Len(dl_log)

\* C3: the retry loop ends early exactly for errors of the unavailable
\* category: a failed call all of whose attempts were classified blocked,
\* network, rate-limited or unknown made max_retries attempts, and an attempt
\* classified unavailable is the last one.
C3_EarlyExitExactlyForUnavailable ==
    (dl_pc = "returned" /\ ~dl_ret.success) =>
        /\ (\A k \in 1..Len(dl_log) : ~IsUnavailableType(Classify(Lower(dl_log[k]))))
              => Len(dl_log) = max_retries
        /\ \A k \in 1..Len(dl_log) :
              IsUnavailableType(Classify(Lower(dl_log[k]))) => k = Len(dl_log)

-----------------------------------------------------------------------------
(* process_videos (app.py, lines 224-334) *)

\* the lists r for r in results, kept in order
RECURSIVE SelectSuccess(_, _)
SelectSuccess(results, wanted) ==
    IF results = <<>> THEN <<>>
    ELSE IF Get(Head(results), "success", FALSE) = wanted
         THEN <<Head(results)>> \o SelectSuccess(Tail(results), wanted)
         ELSE SelectSuccess(Tail(results), wanted)

\* a mutant of FailedDownloadResults: the failed downloads are left out
FailedDownloadResultsNone(results) == <<>>

\* line 288: [r for r in download_results if not r.get('success', False)]
FailedDownloadResults(results) == SelectSuccess(results, FALSE)

\* a mutant of SuccessfulDownloads: the successful downloads, last first
SuccessfulDownloadsReversed(results) ==
    LET ok == SelectSuccess(results, TRUE)
    IN [k \in 1..Len(ok) |-> ok[Len(ok) + 1 - k]]

\* line 296: [r for r in download_results if r.get('success', False)]
SuccessfulDownloads(results) == SelectSuccess(results, TRUE)

PlaceholderError == "Download failed - transcription not attempted"

\* a mutant of PlaceholderResult: the record is flagged as transcribed
PlaceholderResultFlagged(failed_result) ==
    Merge(failed_result,
          [transcription_success |-> TRUE, transcription_error |-> PlaceholderError])

\* lines 290-294
PlaceholderResult(failed_result) ==
    Merge(failed_result,
          [transcription_success |-> FALSE, transcription_error |-> PlaceholderError])

\* if transcription:  (None and the empty dict are false)
Truthy(d) == DOMAIN d # {}

\* lines 304-316
CombinedResult(download_result, transcription) ==
    IF Truthy(transcription)
    THEN Merge(Merge(download_result, transcription),
               [transcription_success |-> TRUE])
    ELSE Merge(download_result,
               [transcription_success |-> FALSE,
                transcription_error |-> "Failed to transcribe"])

\* a mutant of TotalSteps: one step for each url
TotalStepsPerUrl == Len(urls)

\* total_steps, line 232
TotalSteps == Len(urls) * 2

\* a mutant of SessionAfterDownloads: the batch is flagged complete, and its
\* failed downloads published, as soon as the downloads are done
SessionAfterDownloadsEager(s, results) ==
    [s EXCEPT !.download_results = results,
              !.transcription_results = FailedDownloadResults(results),
              !.processing_complete = TRUE]

\* line 281
SessionAfterDownloads(s, results) == [s EXCEPT !.download_results = results]

\* a mutant of CleanupCalls: the transcriber's temp directory is not cleaned
CleanupCallsDownloadsOnly == <<"cleanup_downloads">>

\* lines 326-327
CleanupCalls == <<"cleanup_downloads", "cleanup_temp_files">>

\* the "Clear All Results" button, lines 131-134
ClearResults ==
    /\ pc = "idle"
    /\ session # FreshSession
    /\ session' = FreshSession
    /\ UNCHANGED <<pc, urls, download_results, successful_downloads,
                   transcription_results, ti, progress, transcribed, cleanups,
                   surfaced>>
    /\ UNCHANGED <<fs_vars, dl_vars, obj_vars, tr_vars>>
    /\ UNCHANGED more_vars

\* lines 227-240: the stages are built; a model that does not load makes the
\* constructor raise, outside the try block
PvStart(us, size, ok) ==
    /\ pc = "idle"
    /\ urls' = us
    /\ Construct(size, ok)
    /\ IF ok
       THEN /\ pc' = "download"
            /\ progress' = << <<0, 1>> >>
       ELSE /\ pc' = "raised"
            /\ progress' = progress
    /\ UNCHANGED <<download_results, successful_downloads,
                   transcription_results, ti, transcribed, cleanups, surfaced,
                   session>>
    /\ UNCHANGED <<fs_vars, dl_vars, tr_vars>>
    /\ UNCHANGED more_vars

\* line 244: downloader.download_video(url) for the next url
PvDownloadCall ==
    /\ pc = "download"
    /\ Len(download_results) < Len(urls)
    /\ DlCall(urls[Len(download_results) + 1], DefaultMaxRetries)
    /\ UNCHANGED <<fs_vars, obj_vars, tr_vars, app_vars>>
    /\ UNCHANGED more_vars

\* lines 245-256: the record is appended and the progress reported
PvDownloadDone ==
    /\ pc = "download"
    /\ dl_pc = "returned"
    /\ download_results' = Append(download_results, dl_ret)
    /\ progress' = Append(progress, <<Len(download_results) + 1, TotalSteps>>)
    /\ DlFrameGone
    /\ UNCHANGED <<pc, urls, successful_downloads, transcription_results, ti,
                   transcribed, cleanups, surfaced, session>>
    /\ UNCHANGED <<fs_vars, obj_vars, tr_vars>>
    /\ UNCHANGED more_vars

\* lines 258-296: after the download loop, up to the transcription loop
PvPartition ==
    /\ pc = "download"
    /\ dl_pc = "idle"
    /\ Len(download_results) = Len(urls)
    /\ session' = SessionAfterDownloads(session, download_results)
    /\ transcription_results' =
          LET failed == FailedDownloadResults(download_results)
          IN [k \in 1..Len(failed) |-> PlaceholderResult(failed[k])]
    /\ successful_downloads' = SuccessfulDownloads(download_results)
    /\ ti' = 0
    /\ pc' = "transcribe"
    /\ UNCHANGED <<urls, download_results, progress, transcribed, cleanups,
                   surfaced>>
    /\ UNCHANGED <<fs_vars, dl_vars, obj_vars, tr_vars>>
    /\ UNCHANGED more_vars

\* lines 298-302: transcriber.transcribe_video(video_path, language)
PvTranscribeCall ==
    /\ pc = "transcribe"
    /\ ti < Len(successful_downloads)
    /\ TrCall(successful_downloads[ti + 1].filename)
    /\ transcribed' = Append(transcribed, successful_downloads[ti + 1].filename)
    /\ UNCHANGED <<pc, urls, download_results, successful_downloads,
                   transcription_results, ti, progress, cleanups, surfaced,
                   session>>
    /\ UNCHANGED <<fs_vars, dl_vars, obj_vars>>
    /\ UNCHANGED more_vars

\* lines 304-319: the merged record is appended and the progress reported
PvTranscribeDone ==
    /\ pc = "transcribe"
    /\ tr_pc = "returned"
    /\ transcription_results' =
          Append(transcription_results,
                 CombinedResult(successful_downloads[ti + 1], tr_ret))
    /\ progress' = Append(progress, <<Len(urls) + ti + 1, TotalSteps>>)
    /\ ti' = ti + 1
    /\ TrFrameGone
    /\ UNCHANGED <<pc, urls, download_results, successful_downloads,
                   transcribed, cleanups, surfaced, session>>
    /\ UNCHANGED <<fs_vars, dl_vars, obj_vars>>
    /\ UNCHANGED more_vars

\* lines 321-322: the results are published in the session
PvPublish ==
    /\ pc = "transcribe"
    /\ tr_pc = "idle"
    /\ ti = Len(successful_downloads)
    /\ session' = [session EXCEPT !.transcription_results = transcription_results,
                                  !.processing_complete = TRUE]
    /\ pc' = "cleanup"
    /\ UNCHANGED <<urls, download_results, successful_downloads,
                   transcription_results, ti, progress, transcribed, cleanups,
                   surfaced>>
    /\ UNCHANGED <<fs_vars, dl_vars, obj_vars, tr_vars>>
    /\ UNCHANGED more_vars

\* glob("*"): the entries directly under the directory. An entry is
\* <<stem, ext>> for a file, <<name, "/">> for a subdirectory and
\* <<name, "/", stem, ext>> for a file in a subdirectory.
GlobStar(dir) == {e \in dir : Len(e) = 2}

\* a mutant of IsFile: a subdirectory passes for a file
IsFileAlways(e) == TRUE

\* file.is_file()
IsFile(e) == e[2] # "/"

\* the entries cleanup_downloads (video_downloader.py, lines 205-213) and
\* cleanup_temp_files (transcriber.py, lines 201-209) unlink
DirectFiles(dir) == {e \in GlobStar(dir) : IsFile(e)}

\* one cleanup call on dir: it unlinks the files in  removed ; with failed,
\* an unlink raised, the loop was left with that file and the files after it
\* still there, and the except branch logged the error
CleanupOutcome(dir, removed, failed) ==
    /\ removed \subseteq DirectFiles(dir)
    /\ failed <=> removed # DirectFiles(dir)

\* the cleanups among calls that are named name
CallsOf(name, calls) == SelectSeq(calls, LAMBDA c : c = name)

\* lines 324-330: both cleanups, then the progress bar is set to 1.0
PvCleanup ==
    /\ pc = "cleanup"
    /\ cleanups' = cleanups \o CleanupCalls
    /\ \E r1 \in SUBSET output_dir, r2 \in SUBSET temp_dir, f1, f2 \in BOOLEAN :
          /\ IF CallsOf("cleanup_downloads", CleanupCalls) # <<>>
             THEN CleanupOutcome(output_dir, r1, f1)
             ELSE r1 = {} /\ ~f1
          /\ IF CallsOf("cleanup_temp_files", CleanupCalls) # <<>>
             THEN CleanupOutcome(temp_dir, r2, f2)
             ELSE r2 = {} /\ ~f2
          /\ output_dir' = output_dir \ r1
          /\ temp_dir' = temp_dir \ r2
          /\ cleanup_err' = cleanup_err
                \o (IF f1 THEN <<"cleanup_downloads">> ELSE <<>>)
                \o (IF f2 THEN <<"cleanup_temp_files">> ELSE <<>>)
    /\ progress' = Append(progress, <<1, 1>>)
    /\ pc' = "done"
    /\ UNCHANGED <<urls, download_results, successful_downloads,
                   transcription_results, ti, transcribed, surfaced, session>>
    /\ UNCHANGED <<dl_vars, obj_vars, tr_vars>>
    /\ UNCHANGED <<bulk_vars, view_vars>>

\* a stage call raises instead of returning: the handler of lines 332-334
\* shows the error; the frames of the call are gone
PvStageRaises ==
    /\ \/ pc = "download" /\ dl_pc \in {"loop", "failed"}
       \/ pc = "transcribe" /\ tr_pc \in {"called", "extracted", "recognized"}
    /\ pc' = "aborted"
    /\ surfaced' = <<"Error during processing">>
    /\ DlFrameGone
    /\ TrFrameGone
    /\ UNCHANGED <<urls, download_results, successful_downloads,
                   transcription_results, ti, progress, transcribed, cleanups,
                   session>>
    /\ UNCHANGED <<fs_vars, obj_vars>>
    /\ UNCHANGED more_vars

\* the url lists main hands to process_videos: not empty (line 197)
UrlLists == UNION { [1..n -> Urls] : n \in 1..MaxUrls }

\* a session left by an earlier batch: one url, whose video was private
EarlierSession ==
    LET r == FailureRecord("https://vm.tiktok.com/b", <<"Private", "video">>,
                           TypePrivate, DefaultMaxRetries)
    IN [transcription_results |-> <<PlaceholderResult(r)>>,
        download_results |-> <<r>>,
        processing_complete |-> TRUE]

Init ==
    /\ InitFrames
    /\ output_dir = {} /\ temp_dir = {}
    /\ tr_alive = FALSE /\ model_size = "base" /\ model = NoModel
    /\ load_failed = FALSE
    /\ session \in {FreshSession, EarlierSession}

\* the models selected in the side bar (model_options, line 84), in the model:
\* the default and another
SelectedModels == {"base", "tiny"}

\* the "Start Processing" button, lines 200-201
StartProcessing ==
    \E us \in UrlLists, size \in SelectedModels, ok \in BOOLEAN :
        PvStart(us, size, ok)

\* the steps of transcribe_video
ExtractAudio == \E ok \in BOOLEAN, partial \in BOOLEAN : TrExtractAudio(ok, partial)
TranscribeAudio == \E ok \in BOOLEAN, r \in EngineResults : TrTranscribeAudio(ok, r)
UnlinkAndReturn == \E ok \in BOOLEAN : TrUnlinkAndReturn(ok)

Next ==
    \/ ClearResults
    \/ StartProcessing
    \/ PvDownloadCall
    \/ AttemptSucceeds
    \/ AttemptFails
    \/ DlReturnFailure
    \/ PvDownloadDone
    \/ PvPartition
    \/ PvTranscribeCall
    \/ ExtractAudio
    \/ TranscribeAudio
    \/ UnlinkAndReturn
    \/ PvTranscribeDone
    \/ PvPublish
    \/ PvCleanup
    \/ PvStageRaises

Spec == Init /\ [][Next]_vars

-----------------------------------------------------------------------------
(* Properties of process_videos, under Spec *)

\* this batch has published its results
Published == pc \in {"cleanup", "done"}

\* the input positions whose download failed, and those whose download succeeded
FailedAt == {k \in 1..Len(download_results) : ~download_results[k].success}
SucceededAt == {k \in 1..Len(download_results) : download_results[k].success}

\* C4: whatever downloads and transcriptions fail, a batch that runs to its
\* end has attempted every url (one DownloadRecord per url, in input order) and
\* publishes exactly N ResultRecords, one per input url.
C4_OneResultPerUrl ==
    Published =>
        LET R == session.transcription_results
        IN /\ Len(download_results) = Len(urls)
           /\ \A k \in 1..Len(urls) : download_results[k].url = urls[k]
           /\ Len(R) = Len(urls)
           /\ \A u \in Urls :
                 Cardinality({k \in 1..Len(R) : R[k].url = u})
                    = Cardinality({k \in 1..Len(urls) : urls[k] = u})

C4_Witness ==
    /\ pc = "done"
    /\ Len(urls) = MaxUrls
    /\ FailedAt # {}
    /\ \E k \in 1..Len(session.transcription_results) :
          /\ session.transcription_results[k].success
          /\ ~session.transcription_results[k].transcription_success

\* the place, in the published list, of the record of input position k
PlaceOf(k) ==
    IF k \in FailedAt
    THEN Cardinality({j \in FailedAt : j <= k})
    ELSE Cardinality(FailedAt) + Cardinality({j \in SucceededAt : j <= k})

\* C5: the published list holds the records of the failed downloads first and
\* those of the successful downloads after them, each group in input order.
C5_FailedFirstInInputOrder ==
    Published =>
        LET R == session.transcription_results
        IN \A k \in 1..Len(urls) :
              /\ PlaceOf(k) \in 1..Len(R)
              /\ R[PlaceOf(k)].url = urls[k]
              /\ R[PlaceOf(k)].success = download_results[k].success
              /\ R[PlaceOf(k)].attempts = download_results[k].attempts
              /\ download_results[k].success =>
                    R[PlaceOf(k)].filename = download_results[k].filename

C5_Witness ==
    /\ pc = "done"
    /\ Len(urls) = 2
    /\ urls[1] # urls[2]
    /\ download_results[1].success
    /\ ~download_results[2].success
    /\ session.transcription_results[1].url = urls[2]

\* C6: transcribe_video is called on the videos of the successful downloads
\* and on nothing else, and the record of a failed download has the
\* transcription flag false and the fixed placeholder reason.
C6_TranscribedIffDownloaded ==
    /\ pc \in {"transcribe", "cleanup", "done"} =>
          /\ Len(transcribed) <= Cardinality(SucceededAt)
          /\ \A k \in SucceededAt :
                LET n == Cardinality({j \in SucceededAt : j <= k})
                IN n <= Len(transcribed) =>
                      transcribed[n] = download_results[k].filename
    /\ Published =>
          /\ Len(transcribed) = Cardinality(SucceededAt)
          /\ \A k \in 1..Len(session.transcription_results) :
                LET r == session.transcription_results[k]
                IN ~r.success =>
                      /\ r.transcription_success = FALSE
                      /\ r.transcription_error = PlaceholderError

C6_Witness ==
    /\ pc = "done"
    /\ FailedAt # {}
    /\ SucceededAt # {}
    /\ Len(transcribed) = 1

\* C7: a step of the try block other than the publication of lines 321-322
\* leaves session.transcription_results and session.processing_complete as
\* they are, so does everything after an abort, and an abort shows the error:
\* an aborted batch leaves both as they were before the batch.
C7_AbortPublishesNothing ==
    [][ /\ (pc \in {"download", "transcribe", "aborted"} /\ pc' # "cleanup") =>
              /\ session'.transcription_results = session.transcription_results
              /\ session'.processing_complete = session.processing_complete
        /\ (pc # "aborted" /\ pc' = "aborted") =>
              /\ surfaced' # None
              /\ cleanups' = <<>> ]_vars

C7_Witness ==
    /\ pc = "aborted"
    /\ Len(transcription_results) >= 1
    /\ session.download_results = download_results
    /\ session.transcription_results = EarlierSession.transcription_results
    /\ session.processing_complete

\* every url is downloaded and every successful download transcribed
AllProcessed ==
    /\ pc \in {"transcribe", "cleanup", "done"}
    /\ tr_pc = "idle"
    /\ ti = Len(successful_downloads)

\* C8: once all items are processed nothing but the publication and the two
\* cleanups can happen, process_videos ends with both cleanups invoked, and
\* no cleanup is invoked before the last transcription returned.
C8_CleanupsAfterLastItem ==
    /\ pc = "done" => cleanups = <<"cleanup_downloads", "cleanup_temp_files">>
    /\ cleanups # <<>> => (pc = "done" /\ AllProcessed)
    /\ (AllProcessed /\ pc = "transcribe") =>
          (ENABLED PvPublish /\ ~ENABLED PvStageRaises)
    /\ pc = "cleanup" => (ENABLED PvCleanup /\ ~ENABLED PvStageRaises)

C8_Witness ==
    /\ pc = "done"
    /\ cleanups = <<"cleanup_downloads", "cleanup_temp_files">>
    /\ Len(transcribed) = MaxUrls
    /\ ~session.transcription_results[MaxUrls].transcription_success
    /\ output_dir = {} /\ temp_dir = {}

-----------------------------------------------------------------------------
(* SpecTranscriber: a VideoTranscriber used directly *)

\* the video files the callers name; the first exists
VideoPaths == { <<"clip", "mp4">>, <<"gone", "mp4">> }

InitTranscriber ==
    /\ InitFrames
    /\ output_dir = { <<"clip", "mp4">> } /\ temp_dir = {}
    /\ tr_alive = FALSE /\ model_size = "base" /\ model = NoModel
    /\ load_failed = FALSE
    /\ session = FreshSession

\* VideoTranscriber(model_size)
NewTranscriber ==
    /\ tr_pc = "idle"
    /\ \E size \in ModelSizes, ok \in BOOLEAN : Construct(size, ok)
    /\ UNCHANGED <<fs_vars, dl_vars, tr_vars, app_vars>>
    /\ UNCHANGED more_vars

\* transcriber.change_model(model_size)
CallChangeModel ==
    /\ \E size \in ModelSizes, ok \in BOOLEAN : ChangeModel(size, ok)
    /\ UNCHANGED <<fs_vars, dl_vars, tr_vars, app_vars>>
    /\ UNCHANGED more_vars

\* transcriber.transcribe_video(video_path)
CallTranscribeVideo ==
    /\ \E path \in VideoPaths : TrCall(path)
    /\ UNCHANGED <<fs_vars, dl_vars, obj_vars, app_vars>>
    /\ UNCHANGED more_vars

\* the caller has the result
TakeTranscription ==
    /\ tr_pc = "returned"
    /\ TrFrameGone
    /\ UNCHANGED <<fs_vars, dl_vars, obj_vars, app_vars>>
    /\ UNCHANGED more_vars

NextTranscriber ==
    \/ NewTranscriber
    \/ CallChangeModel
    \/ CallTranscribeVideo
    \/ ExtractAudio
    \/ TranscribeAudio
    \/ UnlinkAndReturn
    \/ TakeTranscription

SpecTranscriber == InitTranscriber /\ [][NextTranscriber]_vars

\* transcribe_video has returned after extract_audio gave it an audio file
ReturnedWithAudio == tr_pc = "returned" /\ audio_path # None

\* C9, as claimed: whenever transcribe_video has produced a temporary audio
\* file, that file is deleted before transcribe_video returns, whether the
\* speech recognition succeeded or failed.
C9_AudioFileDeleted ==
    ReturnedWithAudio => audio_path \notin temp_dir

\* C9, amended: whenever transcribe_video has produced a temporary audio file,
\* it tries to delete that file before it returns, whether the speech
\* recognition succeeded or failed; the file is gone when the deletion did not
\* fail, and a failed deletion is not surfaced: the call returns the result
\* of the recognition as it was.
C9_AudioFileDeletionAttempted ==
    ReturnedWithAudio =>
        /\ tr_unlink \in {"ok", "error"}
        /\ tr_unlink = "ok" => audio_path \notin temp_dir
        /\ tr_ret = tr_result

C9_Witness ==
    /\ ReturnedWithAudio
    /\ tr_result = None
    /\ tr_engine # NoModel
    /\ tr_unlink = "ok"
    /\ temp_dir = {}

\* C10: after a failed model load every transcribe call fails until a load
\* succeeds, and the engine never runs on a model other than the one of the
\* stage's current tier.
C10_NoTranscriptionAfterFailedLoad ==
    tr_pc \in {"recognized", "returned"} =>
        /\ load_failed => tr_result = None
        /\ tr_engine # NoModel => tr_engine = model_size

-----------------------------------------------------------------------------
(* format_timestamp (transcriber.py, lines 211-223); a string is the         *)
(* sequence of its characters                                                *)

DigitChars == <<"0", "1", "2", "3", "4", "5", "6", "7", "8", "9">>

\* str(n) for a natural number n
RECURSIVE Decimal(_)
Decimal(n) ==
    IF n < 10 THEN <<DigitChars[n + 1]>>
    ELSE Decimal(n \div 10) \o <<DigitChars[(n % 10) + 1]>>

\* the format {n:02d}: at least two digits, padded with zeros
PadTwo(n) == IF n < 10 THEN <<"0">> \o Decimal(n) ELSE Decimal(n)

\* a mutant of Minutes: the minutes wrap at the hour
MinutesOfHour(secs) == (secs \div 60) % 60

\* line 221: int(seconds // 60)
Minutes(secs) == secs \div 60

\* line 222: int(seconds % 60)
SecondsOfMinute(secs) == secs % 60

\* lines 221-223
FormatTimestamp(secs) ==
    PadTwo(Minutes(secs)) \o <<":">> \o PadTwo(SecondsOfMinute(secs))

\* format_timestamp(s) is called
CallFormatTimestamp ==
    /\ timestamp = None
    /\ \E secs \in 0..MaxSeconds :
          /\ seconds' = secs
          /\ timestamp' = FormatTimestamp(secs)
    /\ UNCHANGED <<fs_vars, dl_vars, obj_vars, tr_vars, app_vars>>
    /\ UNCHANGED <<cleanup_err, bulk_vars, input_method, main_urls,
                   summary, archive, text, extracted>>

\* the value is used; the next call can be made
TakeTimestamp ==
    /\ timestamp # None
    /\ seconds' = 0
    /\ timestamp' = None
    /\ UNCHANGED <<fs_vars, dl_vars, obj_vars, tr_vars, app_vars>>
    /\ UNCHANGED <<cleanup_err, bulk_vars, input_method, main_urls,
                   summary, archive, text, extracted>>

\* no call is running and no object holds anything
InitIdle ==
    /\ InitFrames
    /\ output_dir = {} /\ temp_dir = {}
    /\ tr_alive = FALSE /\ model_size = "base" /\ model = NoModel
    /\ load_failed = FALSE
    /\ session = FreshSession

NextTimestamp == CallFormatTimestamp \/ TakeTimestamp

SpecTimestamp == InitIdle /\ [][NextTimestamp]_vars

\* the number a string of digits writes
RECURSIVE NumberOf(_)
NumberOf(chars) ==
    IF chars = <<>> THEN 0
    ELSE 10 * NumberOf(SubSeq(chars, 1, Len(chars) - 1))
         + (CHOOSE d \in 0..9 : DigitChars[d + 1] = chars[Len(chars)])

IsDigits(chars) ==
    \A k \in 1..Len(chars) : \E d \in 1..10 : DigitChars[d] = chars[k]

\* C15: for whole seconds s >= 0, format_timestamp(s) is MM:SS with
\* MM = s div 60 in at least two digits (more when it needs them, never an
\* hours field) and SS = s mod 60 in two digits; 75 gives "01:15", 0 gives
\* "00:00", 3661 gives "61:01".
C15_MinutesAndSeconds ==
    timestamp # None =>
        LET n == Len(timestamp)
            mm == SubSeq(timestamp, 1, n - 3)
            ss == SubSeq(timestamp, n - 1, n)
        IN /\ n >= 5
           /\ timestamp[n - 2] = ":"
           /\ IsDigits(mm) /\ IsDigits(ss)
           /\ NumberOf(mm) = seconds \div 60
           /\ NumberOf(ss) = seconds % 60
           /\ Len(mm) = 2 \/ (Len(mm) > 2 /\ mm[1] # "0")
           /\ seconds = 75 => timestamp = <<"0", "1", ":", "1", "5">>
           /\ seconds = 0 => timestamp = <<"0", "0", ":", "0", "0">>
           /\ seconds = 3661 => timestamp = <<"6", "1", ":", "0", "1">>

C15_Witness ==
    /\ seconds = 3661
    /\ timestamp = <<"6", "1", ":", "0", "1">>

-----------------------------------------------------------------------------
(* The Results and Export tabs (app.py): display_results, lines 336-352,     *)
(* export_results, lines 451-465, create_srt_zip_export, lines 500-523       *)

\* the metadata of the videos in the displayed sessions; the second title
\* has characters a file name may not keep and ends in a space, the third is
\* longer than the title limit
LongTitle == "abcdefghijabcdefghijabcdefghijabcdefghijabcdefghijkl"

ResultInfos ==
    { [title |-> "clip", duration |-> 30],
      [title |-> "my #1 dance! ", duration |-> 12],
      [title |-> LongTitle, duration |-> 52] }

\* the characters of a title
Chars(title) ==
    CASE title = "clip" -> <<"c", "l", "i", "p">>
      [] title = "my #1 dance! " ->
            <<"m", "y", " ", "#", "1", " ", "d", "a", "n", "c", "e", "!", " ">>
      [] title = LongTitle ->
            [k \in 1..52 |-> <<"a", "b", "c", "d", "e", "f", "g", "h", "i", "j",
                               "k", "l">>[IF k > 50 THEN k - 40
                                          ELSE ((k - 1) % 10) + 1]]
      [] title = "unknown" -> <<"u", "n", "k", "n", "o", "w", "n">>

\* the ResultRecords process_videos publishes (lines 290-316): a failed
\* download, and a download with or without a transcription
ResultRecords ==
    { PlaceholderResult(FailureRecord(u, e, Classify(e), DefaultMaxRetries)) :
        u \in {"https://vm.tiktok.com/b"}, e \in {<<"network", "unreachable">>} }
    \cup
    { CombinedResult(SuccessRecord("https://www.tiktok.com/@a/video/1", i, 1), t) :
        i \in ResultInfos,
        t \in {None} \cup { TranscriptionRecord(r) : r \in EngineResults } }

RECURSIVE ListsUpTo(_, _)
ListsUpTo(S, n) ==
    IF n = 0 THEN {<<>>}
    ELSE LET shorter == ListsUpTo(S, n - 1)
         IN shorter \cup { Append(l, x) : l \in shorter, x \in S }

\* sum(l)
RECURSIVE Sum(_)
Sum(l) == IF l = <<>> THEN 0 ELSE Head(l) + Sum(Tail(l))

\* f"{(a/b*100):.1f}", as a number of tenths: the nearest tenth of a percent,
\* a tie going to the even digit
PercentTenths(a, b) ==
    LET q == (1000 * a) \div b
        r == (1000 * a) % b
    IN IF 2 * r < b THEN q
       ELSE IF 2 * r > b THEN q + 1
       ELSE IF q % 2 = 0 THEN q ELSE q + 1

\* a mutant of Transcribed: the download flag is read
Downloaded(r) == Get(r, "success", FALSE)

\* r.get('transcription_success', False), lines 344 and 453
Transcribed(r) == Get(r, "transcription_success", FALSE)

\* lines 343-354: the four metrics
Summarize(results) ==
    LET total_videos == Len(results)
        successful_transcriptions ==
            Cardinality({k \in 1..Len(results) : Transcribed(results[k])})
        total_duration ==
            Sum([k \in 1..Len(results) |-> Get(results[k], "duration", 0)])
    IN [total_videos |-> total_videos,
        successful_transcriptions |-> successful_transcriptions,
        success_rate |-> PercentTenths(successful_transcriptions, total_videos),
        total_duration |-> total_duration]

\* a mutant of HasSegments: every record counts as having segments
HasSegmentsAlways(r) == TRUE

\* r.get('segments'), lines 453 and 506: a missing and an empty list are false
HasSegments(r) == Get(r, "segments", <<>>) # <<>>

\* line 453
SuccessfulResults(results) ==
    SelectSeq(results, LAMBDA r : Transcribed(r) /\ HasSegments(r))

\* title[:50], line 517
TitleLimit == 50

\* line 519: the characters a file name keeps
IsAlnum(c) ==
    c \in {"a", "b", "c", "d", "e", "f", "g", "h", "i", "j", "k", "l", "m", "n",
           "o", "p", "q", "r", "s", "t", "u", "v", "w", "x", "y", "z",
           "0", "1", "2", "3", "4", "5", "6", "7", "8", "9"}

KeptInFilename(c) == IsAlnum(c) \/ c \in {" ", "-", "_", "."}

\* lines 517-519: the name of the i-th entry (i counts from 0)
SrtFilename(i, result) ==
    LET title == Chars(Get(result, "title", "unknown"))
        filename == <<"v", "i", "d", "e", "o", "_">> \o Decimal(i + 1) \o <<"_">>
                    \o SubSeq(title, 1, IF Len(title) < TitleLimit
                                        THEN Len(title) ELSE TitleLimit)
                    \o <<".", "s", "r", "t">>
    IN RStrip(SelectSeq(filename, KeptInFilename))

\* lines 508-514: the blocks of one subtitle document
SrtContent(result) ==
    [j \in 1..Len(result.segments) |->
        [index |-> j,
         start_time |-> FormatTimestamp(result.segments[j].start),
         end_time |-> FormatTimestamp(result.segments[j].end),
         text |-> Strip(result.segments[j].text)]]

\* lines 500-523: the entries written to the archive, in order
RECURSIVE SrtEntriesFrom(_, _)
SrtEntriesFrom(i, results) ==
    IF i >= Len(results) THEN <<>>
    ELSE (IF HasSegments(results[i + 1])
          THEN << [filename |-> SrtFilename(i, results[i + 1]),
                   content |-> SrtContent(results[i + 1])] >>
          ELSE <<>>)
         \o SrtEntriesFrom(i + 1, results)

CreateSrtZipExport(results) == SrtEntriesFrom(0, results)

\* the Results tab is rendered (lines 211-212)
DisplayResults ==
    /\ session.transcription_results # <<>>
    /\ summary = None
    /\ summary' = Summarize(session.transcription_results)
    /\ UNCHANGED <<fs_vars, dl_vars, obj_vars, tr_vars, app_vars>>
    /\ UNCHANGED <<cleanup_err, bulk_vars, input_method, main_urls,
                   archive, seconds, timestamp,
                   text, extracted>>

\* the SRT button of the Export tab is pressed (lines 219-220, 453-457)
ExportSrtZip ==
    /\ session.transcription_results # <<>>
    /\ archive = None
    /\ SuccessfulResults(session.transcription_results) # <<>>
    /\ archive' = CreateSrtZipExport(
                      SuccessfulResults(session.transcription_results))
    /\ UNCHANGED <<fs_vars, dl_vars, obj_vars, tr_vars, app_vars>>
    /\ UNCHANGED <<cleanup_err, bulk_vars, input_method, main_urls,
                   summary, seconds, timestamp,
                   text, extracted>>

InitResults ==
    /\ InitFrames
    /\ output_dir = {} /\ temp_dir = {}
    /\ tr_alive = FALSE /\ model_size = "base" /\ model = NoModel
    /\ load_failed = FALSE
    /\ \E results \in ListsUpTo(ResultRecords, MaxResults) :
          session = [transcription_results |-> results,
                     download_results |-> <<>>,
                     processing_complete |-> results # <<>>]

NextResults == DisplayResults \/ ExportSrtZip

SpecResults == InitResults /\ [][NextResults]_vars

\* the places of the displayed records that satisfy P
PlacesWhere(P(_)) ==
    {k \in 1..Len(session.transcription_results) :
        P(session.transcription_results[k])}

IsTranscribedRecord(r) == r.transcription_success

IsFailedDownload(r) == ~r.success

\* C11: the summary has total = number of records, successful = number of
\* records with the transcription flag, rate = successful/total*100 to one
\* decimal; two records both transcribed give 100.0, two records of which one
\* is a failed download and the other transcribed give 1 and 50.0.
C11_SummaryCounts ==
    summary # None =>
        LET n == Len(session.transcription_results)
            s == Cardinality(PlacesWhere(IsTranscribedRecord))
            d == 1000 * s - summary.success_rate * n
        IN /\ summary.total_videos = n
           /\ summary.successful_transcriptions = s
           /\ 2 * d <= n /\ -2 * d <= n
           /\ (n = 2 /\ s = 2) => summary.success_rate = 1000
           /\ (n = 2 /\ s = 1 /\ Cardinality(PlacesWhere(IsFailedDownload)) = 1)
                => /\ summary.successful_transcriptions = 1
                   /\ summary.success_rate = 500

C11_Witness ==
    /\ summary # None
    /\ Len(session.transcription_results) = 2
    /\ Cardinality(PlacesWhere(IsFailedDownload)) = 1
    /\ summary.successful_transcriptions = 1
    /\ summary.success_rate = 500

IsSubtitled(r) ==
    /\ r.transcription_success
    /\ "segments" \in DOMAIN r
    /\ Len(r.segments) > 0

\* the k-th place, in order, of the records that satisfy P
RECURSIVE NthPlaceWhere(_, _)
NthPlaceWhere(P(_), k) ==
    LET S == PlacesWhere(P)
        first == CHOOSE x \in S : \A y \in S : x <= y
    IN IF k = 1 THEN first
       ELSE CHOOSE x \in S :
               Cardinality({y \in S : y < x}) = k - 1

\* C12: the SRT archive has exactly one entry for each record whose
\* transcription flag is true and whose segment list is not empty, in order,
\* each with one block per segment, and none for any other record; of three
\* transcribed records with one empty segment list it has two entries.
C12_OneEntryPerSubtitledRecord ==
    archive # None =>
        LET R == session.transcription_results
            S == PlacesWhere(IsSubtitled)
        IN /\ Len(archive) = Cardinality(S)
           /\ \A k \in 1..Len(archive) :
                 /\ Len(archive[k].content)
                       = Len(R[NthPlaceWhere(IsSubtitled, k)].segments)
                 /\ \A j \in 1..Len(archive) :
                       archive[j].filename = archive[k].filename => j = k
           /\ (Len(R) = 3 /\ Cardinality(PlacesWhere(IsTranscribedRecord)) = 3
               /\ Cardinality(S) = 2) => Len(archive) = 2

C12_Witness ==
    /\ archive # None
    /\ Len(session.transcription_results) = 3
    /\ Cardinality(PlacesWhere(IsTranscribedRecord)) = 3
    /\ Cardinality(PlacesWhere(IsSubtitled)) = 2
    /\ Len(archive) = 2

-----------------------------------------------------------------------------
(* The error category of a failed download and the failed step of a          *)
(* failed transcription                                                      *)

\* the values app.py compares failure['error_type'] with (lines 268-273 and
\* 406-411), and the two the spec adds to them
CategoryNames == {"blocked", "unavailable", "network", "rate-limited", "unknown"}

\* C13: each failed attempt is given the category of the first matching
\* keyword group (blocked, unavailable, private as unavailable, network,
\* rate-limited, else unknown), and the failure record carries the category
\* of the last failed attempt, always one of blocked, unavailable, network,
\* rate-limited, unknown.
C13_FailureCategoryInTaxonomy ==
    (dl_pc = "returned" /\ ~dl_ret.success) =>
        /\ dl_ret.error_type \in CategoryNames
        /\ Len(dl_log) > 0 =>
              LET m == Lower(dl_log[Len(dl_log)])
              IN dl_ret.error_type =
                    IF Contains(m, KwBlocked) THEN "blocked"
                    ELSE IF Contains(m, KwUnavailable) THEN "unavailable"
                    ELSE IF Contains(m, KwPrivate) THEN "unavailable"
                    ELSE IF Contains(m, KwNetwork) \/ Contains(m, KwConnection)
                         THEN "network"
                    ELSE IF Contains(m, KwRateLimit) \/ Contains(m, KwTooMany)
                         THEN "rate-limited"
                    ELSE "unknown"

\* the step of transcribe_video that failed, when it returned None
FailedStep ==
    IF audio_path = None THEN "extraction failed" ELSE "transcription failed"

\* C14: a failed transcribe_video call reports which step failed, "extraction
\* failed" or "transcription failed", so that the caller can tell the two
\* failures apart.
C14_FailureNamesItsStep ==
    (tr_pc = "returned" /\ tr_ret = None) =>
        Get(tr_ret, "category", "none") = FailedStep

-----------------------------------------------------------------------------
(* The backoff of download_video *)

\* the sleeps of the running or returned call are one before each attempt
\* made after the first, none before the first
SleepsBeforeRetriesOnly ==
    /\ Len(dl_sleeps) = (IF Len(dl_log) > 0 THEN Len(dl_log) - 1 ELSE 0)
    /\ \A j \in 1..Len(dl_sleeps) : dl_sleeps[j][1] = j

\* C18, as claimed: a call that makes k attempts sleeps k-1 times, once
\* immediately before each attempt after the first, and the sleep before
\* attempt j+1 lies in [1*j, 3*j) seconds.
C18_SleepBelowThreeTimesAttempt ==
    /\ SleepsBeforeRetriesOnly
    /\ \A j \in 1..Len(dl_sleeps) :
          10 * j <= dl_sleeps[j][2] /\ dl_sleeps[j][2] < 30 * j

\* C18, amended: a call that makes k attempts sleeps k-1 times, once
\* immediately before each attempt after the first, and the sleep before
\* attempt j+1 lies in [1*j, 3*j] seconds, the upper end included.
C18_SleepWithinAttemptRange ==
    /\ SleepsBeforeRetriesOnly
    /\ \A j \in 1..Len(dl_sleeps) :
          10 * j <= dl_sleeps[j][2] /\ dl_sleeps[j][2] <= 30 * j

C18_Witness ==
    /\ dl_pc = "returned"
    /\ Len(dl_log) = 3
    /\ Len(dl_sleeps) = 2
    /\ dl_sleeps[1][2] = 10
    /\ dl_sleeps[2][2] = 60

-----------------------------------------------------------------------------
(* validate_tiktok_url and extract_urls_from_text (video_downloader.py,      *)
(* lines 215-247). A text is the sequence of its tokens, the maximal runs    *)
(* without whitespace; a token and a URL are sequences of parts, each part   *)
(* a run of characters.                                                      *)

Tokens ==
    { <<"https://", "www.", "tiktok.com", "/", "@a/video/1">>,
      <<"http://", "vt.", "tiktok.com", "/", "c">>,
      <<"https://", "youtube.com", "/", "watch">>,
      <<"https://", "m.", "tiktok.com", "/", "@a/video/1">>,
      <<"HTTPS://", "vm.", "TikTok.com", "/", "b">>,
      <<"https://", "tiktok.com", "/">>,
      <<"see:", "https://", "vm.", "tiktok.com", "/", "b", ",">>,
      <<"watch">> }

\* str.lower() of a part
LowerPart(p) ==
    CASE p = "HTTPS://" -> "https://"
      [] p = "TikTok.com" -> "tiktok.com"
      [] OTHER -> p

\* line 225
TiktokDomains ==
    << <<"tiktok.com">>, <<"vm.", "tiktok.com">>, <<"vt.", "tiktok.com">> >>

\* line 226: any(domain in url.lower() for domain in tiktok_domains)
ValidateTiktokUrl(url) ==
    LET lowered == [k \in 1..Len(url) |-> LowerPart(url[k])]
    IN \E d \in 1..Len(TiktokDomains) : Contains(lowered, TiktokDomains[d])

\* the position after an optional group (?:part)? tried at position k
SkipOptional(token, k, part) ==
    IF k <= Len(token) /\ token[k] = part THEN k + 1 ELSE k

\* a mutant of MatchesAt: the path after the slash may be empty
MatchesAtEmptyPath(token, k) ==
    LET host == SkipOptional(token, SkipOptional(token,
                    SkipOptional(token, k + 1, "www."), "vm."), "vt.")
    IN /\ token[k] \in {"http://", "https://"}
       /\ host + 1 <= Len(token)
       /\ token[host] = "tiktok.com"
       /\ token[host + 1] = "/"

\* line 241: the pattern matches at position k of the token; [^\s]+ then
\* takes the rest of the token, which must not be empty
MatchesAt(token, k) ==
    LET host == SkipOptional(token, SkipOptional(token,
                    SkipOptional(token, k + 1, "www."), "vm."), "vt.")
    IN /\ token[k] \in {"http://", "https://"}
       /\ host + 2 <= Len(token)
       /\ token[host] = "tiktok.com"
       /\ token[host + 1] = "/"

\* line 242: re.findall scans from the left; a match runs to the end of its
\* token, so a token holds at most one
FindAll(txt) ==
    LET matching == SelectSeq(txt,
                        LAMBDA token : \E k \in 1..Len(token) : MatchesAt(token, k))
    IN [n \in 1..Len(matching) |->
          LET token == matching[n]
              k == CHOOSE x \in 1..Len(token) :
                      /\ MatchesAt(token, x)
                      /\ \A y \in 1..(x - 1) : ~MatchesAt(token, y)
          IN SubSeq(token, k, Len(token))]

\* lines 241-247
ExtractUrlsFromText(txt) == SelectSeq(FindAll(txt), ValidateTiktokUrl)

\* extract_urls_from_text(txt) is called; extracted holds the returned list
CallExtractUrls ==
    /\ extracted = None
    /\ \E txt \in ListsUpTo(Tokens, MaxTokens) :
          /\ text' = txt
          /\ extracted' = [valid_urls |-> ExtractUrlsFromText(txt)]
    /\ UNCHANGED <<fs_vars, dl_vars, obj_vars, tr_vars, app_vars>>
    /\ UNCHANGED <<cleanup_err, bulk_vars, input_method, main_urls,
                   summary, archive, seconds, timestamp>>

\* the list is used; the next call can be made
TakeExtractedUrls ==
    /\ extracted # None
    /\ text' = <<>>
    /\ extracted' = None
    /\ UNCHANGED <<fs_vars, dl_vars, obj_vars, tr_vars, app_vars>>
    /\ UNCHANGED <<cleanup_err, bulk_vars, input_method, main_urls,
                   summary, archive, seconds, timestamp>>

NextExtract == CallExtractUrls \/ TakeExtractedUrls

SpecExtract == InitIdle /\ [][NextExtract]_vars

\* a token that is a URL: it starts with a scheme, in either case
IsUrl(token) == LowerPart(token[1]) \in {"http://", "https://"}

\* the hosts the pattern allows: tiktok.com after any of www., vm., vt., in
\* this order
PatternHosts ==
    { SelectSeq(<<"www.", "vm.", "vt.">>, LAMBDA p : p \in S) \o <<"tiktok.com">> :
        S \in SUBSET {"www.", "vm.", "vt."} }

\* a URL of the shape the pattern describes: lowercase scheme, one of the
\* pattern's hosts, a slash and a path that is not empty
HasPatternShape(url) ==
    \E scheme \in {"http://", "https://"}, host \in PatternHosts :
        LET prefix == <<scheme>> \o host \o <<"/">>
        IN /\ Len(url) > Len(prefix)
           /\ SubSeq(url, 1, Len(prefix)) = prefix

\* the longest suffix of the token that has the pattern's shape, or <<>>
ShapedUrlIn(token) ==
    LET starts == {k \in 1..Len(token) : HasPatternShape(SubSeq(token, k, Len(token)))}
    IN IF starts = {} THEN <<>>
       ELSE SubSeq(token, CHOOSE k \in starts : \A j \in starts : k <= j, Len(token))

\* C16, as claimed: extract_urls_from_text returns exactly the URLs of the
\* text that validate_tiktok_url accepts, in first-seen order, duplicates
\* preserved, and the empty list when the text has none.
C16_ReturnsTheValidatedUrls ==
    extracted # None =>
        extracted.valid_urls
            = SelectSeq(text, LAMBDA token : IsUrl(token) /\ ValidateTiktokUrl(token))

\* C16, amended: extract_urls_from_text returns, in first-seen order and with
\* duplicates preserved, exactly the URLs in the text that have the shape
\* http(s)://[www.][vm.][vt.]tiktok.com/path with a lowercase scheme and host
\* and a non-empty path, each taken up to the next whitespace, and the empty
\* list when there is none; validate_tiktok_url accepts each of them, and it
\* also accepts URLs that are not returned.
C16_ReturnsThePatternUrls ==
    extracted # None =>
        LET shaped == SelectSeq(text, LAMBDA token : ShapedUrlIn(token) # <<>>)
        IN /\ Len(extracted.valid_urls) = Len(shaped)
           /\ \A n \in 1..Len(shaped) :
                 /\ extracted.valid_urls[n] = ShapedUrlIn(shaped[n])
                 /\ ValidateTiktokUrl(extracted.valid_urls[n])

C16_Witness ==
    /\ extracted # None
    /\ Len(text) = 3
    /\ text[1] = text[3]
    /\ ~IsUrl(text[2]) \/ ~ValidateTiktokUrl(text[2])
    /\ Len(extracted.valid_urls) = 2
    /\ extracted.valid_urls[1] = extracted.valid_urls[2]

-----------------------------------------------------------------------------
(* cleanup_downloads (video_downloader.py, lines 205-213) and                *)
(* cleanup_temp_files (transcriber.py, lines 201-209) called directly        *)

DownloadEntries ==
    { <<"clip", "mp4">>, <<"dance", "mp4">>, <<"old", "/">>,
      <<"old", "/", "clip", "mp4">> }

TempEntries == { <<"clip", "wav">>, <<"work", "/">> }

\* a file in a subdirectory is there only with the subdirectory
IsDirectory(dir) ==
    \A e \in dir : Len(e) = 4 => <<e[1], "/">> \in dir

\* downloader.cleanup_downloads()
CleanupDownloads ==
    /\ Len(cleanups) < MaxCleanups
    /\ cleanups' = Append(cleanups, "cleanup_downloads")
    /\ \E removed \in SUBSET output_dir, failed \in BOOLEAN :
          /\ CleanupOutcome(output_dir, removed, failed)
          /\ output_dir' = output_dir \ removed
          /\ cleanup_err' = IF failed THEN Append(cleanup_err, "cleanup_downloads")
                            ELSE cleanup_err
    /\ UNCHANGED <<temp_dir, dl_vars, obj_vars, tr_vars>>
    /\ UNCHANGED <<pc, urls, download_results, successful_downloads,
                   transcription_results, ti, progress, transcribed, surfaced,
                   session>>
    /\ UNCHANGED <<bulk_vars, view_vars>>

\* transcriber.cleanup_temp_files()
CleanupTempFiles ==
    /\ tr_alive
    /\ Len(cleanups) < MaxCleanups
    /\ cleanups' = Append(cleanups, "cleanup_temp_files")
    /\ \E removed \in SUBSET temp_dir, failed \in BOOLEAN :
          /\ CleanupOutcome(temp_dir, removed, failed)
          /\ temp_dir' = temp_dir \ removed
          /\ cleanup_err' = IF failed THEN Append(cleanup_err, "cleanup_temp_files")
                            ELSE cleanup_err
    /\ UNCHANGED <<output_dir, dl_vars, obj_vars, tr_vars>>
    /\ UNCHANGED <<pc, urls, download_results, successful_downloads,
                   transcription_results, ti, progress, transcribed, surfaced,
                   session>>
    /\ UNCHANGED <<bulk_vars, view_vars>>

InitCleanup ==
    /\ InitFrames
    /\ output_dir \in {d \in SUBSET DownloadEntries : IsDirectory(d)}
    /\ temp_dir \in SUBSET TempEntries
    /\ tr_alive = TRUE /\ model_size = "base" /\ model = "base"
    /\ load_failed = FALSE
    /\ session = FreshSession

NextCleanup == CleanupDownloads \/ CleanupTempFiles

SpecCleanup == InitCleanup /\ [][NextCleanup]_vars

\* a regular file directly under the directory
IsRegularFileUnder(e) == Len(e) = 2 /\ e[2] \in {"mp4", "wav"}

\* a cleanup call was made in this step on a directory that was dir and is
\* now after: it neither raised nor touched the other directory
CleanupStep(dir, after) ==
    /\ cleanups' # cleanups
    /\ dir = (IF cleanups'[Len(cleanups')] = "cleanup_downloads"
              THEN output_dir ELSE temp_dir)
    /\ after = (IF cleanups'[Len(cleanups')] = "cleanup_downloads"
                THEN output_dir' ELSE temp_dir')

\* C17, as claimed: a cleanup deletes every regular file directly under its
\* directory, leaves subdirectories and their contents untouched, never
\* raises, and a second call on the emptied directory changes nothing.
C17_CleanupDeletesEveryFile ==
    [][ \A dir \in SUBSET (DownloadEntries \cup TempEntries) :
        \A after \in SUBSET dir :
            CleanupStep(dir, after) =>
                /\ \A e \in dir : IsRegularFileUnder(e) <=> e \notin after
                /\ (\A e \in dir : ~IsRegularFileUnder(e)) => after = dir
      ]_vars

\* C17, amended: a cleanup deletes only regular files directly under its
\* directory and leaves subdirectories and their contents untouched; it
\* deletes every such file unless a deletion fails, in which case the error
\* is logged, not raised, and the files not yet deleted stay; the other
\* directory is not touched; a call on a directory without regular files
\* changes nothing and logs no error.
C17_CleanupDeletesFilesUnlessError ==
    [][ \A dir \in SUBSET (DownloadEntries \cup TempEntries) :
        \A after \in SUBSET dir :
            CleanupStep(dir, after) =>
                /\ \A e \in dir : e \notin after => IsRegularFileUnder(e)
                /\ cleanup_err' = cleanup_err
                     => \A e \in dir : IsRegularFileUnder(e) => e \notin after
                /\ cleanup_err' # cleanup_err
                     => \E e \in after : IsRegularFileUnder(e)
                /\ (\A e \in dir : ~IsRegularFileUnder(e))
                     => (after = dir /\ cleanup_err' = cleanup_err)
                /\ output_dir' = output_dir \/ temp_dir' = temp_dir
      ]_vars

C17_Witness ==
    /\ cleanups = <<"cleanup_downloads", "cleanup_downloads", "cleanup_temp_files">>
    /\ cleanup_err = <<"cleanup_downloads">>
    /\ output_dir = { <<"old", "/">>, <<"old", "/", "clip", "mp4">> }
    /\ temp_dir = { <<"work", "/">> }

-----------------------------------------------------------------------------
(* The progress bar of process_videos (app.py, lines 232-256, 298-329) *)

\* the fraction <<a, b>> is at most the fraction <<c, d>>
AtMost(x, y) == x[1] * y[2] <= y[1] * x[2]

\* C19: during a batch over N >= 1 urls the progress reported never decreases
\* and never exceeds 1; after the k-th download it is k/(2N), the
\* transcriptions continue from N/(2N) upward, the j-th giving (N+j)/(2N),
\* and a batch that completes normally ends at 1.
C19_ProgressAdvancesToOne ==
    LET N == Len(urls)
    IN (N >= 1 /\ progress # <<>>) =>
          /\ \A k \in 1..Len(progress) :
                /\ progress[k][2] > 0
                /\ AtMost(progress[k], <<1, 1>>)
                /\ k > 1 => AtMost(progress[k - 1], progress[k])
          /\ \A k \in 1..Len(download_results) :
                2 * N * progress[k + 1][1] = k * progress[k + 1][2]
          /\ \A j \in 1..ti :
                /\ Len(download_results) = N
                /\ 2 * N * progress[1 + N + j][1] = (N + j) * progress[1 + N + j][2]
                /\ AtMost(<<N, 2 * N>>, progress[1 + N + j])
          /\ pc = "done" => progress[Len(progress)][1] = progress[Len(progress)][2]

C19_Witness ==
    /\ pc = "done"
    /\ Len(urls) = 2
    /\ Len(successful_downloads) = 1
    /\ progress = << <<0, 1>>, <<1, 4>>, <<2, 4>>, <<3, 4>>, <<1, 1>> >>

-----------------------------------------------------------------------------
(* TikTokDownloader.download_bulk (video_downloader.py, lines 141-165); an   *)
(* input url is a sequence of parts, " " a run of whitespace                 *)

PaddedUrls ==
    { <<"https://www.tiktok.com/@a/video/1">>,
      <<" ", "https://www.tiktok.com/@a/video/1", " ">>,
      <<"https://vm.tiktok.com/b", " ">>,
      <<" ">> }

\* the string of a sequence of parts
RECURSIVE Join(_)
Join(parts) == IF parts = <<>> THEN "" ELSE Head(parts) \o Join(Tail(parts))

\* a mutant of BulkArgument: the url is passed as it is
BulkArgumentUntrimmed(padded) == Join(padded)

\* line 155: url.strip()
BulkArgument(padded) == Join(Strip(padded))

\* the errors an attempt raises under download_bulk, in the model: a
\* permanent and a transient one
BulkErrorMessages == { <<"Private", "video">>, <<"network", "unreachable">> }

\* a caller calls download_bulk(urls): lines 151-153
BulkCall ==
    /\ bulk_pc = "idle"
    /\ dl_pc = "idle"
    /\ \E us \in ListsUpTo(PaddedUrls, MaxBulk) : bulk_urls' = us
    /\ bulk_results' = <<>>
    /\ bulk_calls' = <<>>
    /\ bulk_pc' = "loop"
    /\ UNCHANGED <<fs_vars, dl_vars, obj_vars, tr_vars, app_vars>>
    /\ UNCHANGED <<cleanup_err, view_vars>>

\* line 155: self.download_video(url.strip()) for the next url
BulkDownloadCall ==
    /\ bulk_pc = "loop"
    /\ Len(bulk_calls) = Len(bulk_results)
    /\ Len(bulk_results) < Len(bulk_urls)
    /\ DlCall(BulkArgument(bulk_urls[Len(bulk_results) + 1]), DefaultMaxRetries)
    /\ bulk_calls' = Append(bulk_calls,
                            BulkArgument(bulk_urls[Len(bulk_results) + 1]))
    /\ UNCHANGED <<bulk_pc, bulk_urls, bulk_results>>
    /\ UNCHANGED <<fs_vars, obj_vars, tr_vars, app_vars>>
    /\ UNCHANGED <<cleanup_err, view_vars>>

\* an attempt of the running call raises
BulkAttemptFails ==
    /\ bulk_pc = "loop"
    /\ \E e \in BulkErrorMessages : DlAttemptFails(e)

\* lines 156-163: the record is appended, a false one replaced
BulkDownloadDone ==
    /\ bulk_pc = "loop"
    /\ dl_pc = "returned"
    /\ bulk_results' =
          Append(bulk_results,
                 IF Truthy(dl_ret) THEN dl_ret
                 ELSE [url |-> Join(bulk_urls[Len(bulk_results) + 1]),
                       error |-> <<"Download", "failed">>, success |-> FALSE])
    /\ DlFrameGone
    /\ UNCHANGED <<bulk_pc, bulk_urls, bulk_calls>>
    /\ UNCHANGED <<fs_vars, obj_vars, tr_vars, app_vars>>
    /\ UNCHANGED <<cleanup_err, view_vars>>

\* line 165: the loop is over
BulkReturn ==
    /\ bulk_pc = "loop"
    /\ Len(bulk_results) = Len(bulk_urls)
    /\ bulk_pc' = "returned"
    /\ UNCHANGED <<bulk_urls, bulk_results, bulk_calls>>
    /\ UNCHANGED <<fs_vars, dl_vars, obj_vars, tr_vars, app_vars>>
    /\ UNCHANGED <<cleanup_err, view_vars>>

\* the caller has the list; the downloader is free for the next call
TakeBulkResults ==
    /\ bulk_pc = "returned"
    /\ bulk_pc' = "idle"
    /\ bulk_urls' = <<>> /\ bulk_results' = <<>> /\ bulk_calls' = <<>>
    /\ UNCHANGED <<fs_vars, dl_vars, obj_vars, tr_vars, app_vars>>
    /\ UNCHANGED <<cleanup_err, view_vars>>

NextBulk ==
    \/ BulkCall
    \/ BulkDownloadCall
    \/ AttemptSucceeds
    \/ BulkAttemptFails
    \/ DlReturnFailure
    \/ BulkDownloadDone
    \/ BulkReturn
    \/ TakeBulkResults

SpecBulk == InitDownload /\ [][NextBulk]_vars

\* the url without the whitespace at its ends
TrimmedUrl(padded) ==
    LET solid == {k \in 1..Len(padded) : padded[k] # " "}
    IN IF solid = {} THEN ""
       ELSE Join(SubSeq(padded,
                        CHOOSE k \in solid : \A j \in solid : k <= j,
                        CHOOSE k \in solid : \A j \in solid : k >= j))

\* C20: download_bulk calls download_video once for each input url, in input
\* order, on the url trimmed of whitespace; it goes on after a failed item
\* and returns one record for each input url, in input order.
C20_OneCallAndRecordPerUrl ==
    bulk_pc \in {"loop", "returned"} =>
        /\ Len(bulk_calls) <= Len(bulk_urls)
        /\ Len(bulk_calls) \in {Len(bulk_results), Len(bulk_results) + 1}
        /\ dl_pc # "idle" => Len(bulk_calls) = Len(bulk_results) + 1
        /\ \A k \in 1..Len(bulk_calls) : bulk_calls[k] = TrimmedUrl(bulk_urls[k])
        /\ \A k \in 1..Len(bulk_results) :
              bulk_results[k].url = TrimmedUrl(bulk_urls[k])
        /\ (bulk_pc = "loop" /\ dl_pc = "idle" /\ Len(bulk_results) < Len(bulk_urls))
              => ENABLED BulkDownloadCall
        /\ bulk_pc = "returned" =>
              /\ Len(bulk_calls) = Len(bulk_urls)
              /\ Len(bulk_results) = Len(bulk_urls)

C20_Witness ==
    /\ bulk_pc = "returned"
    /\ bulk_urls = << <<" ", "https://www.tiktok.com/@a/video/1", " ">>,
                      <<"https://vm.tiktok.com/b", " ">> >>
    /\ bulk_calls = <<"https://www.tiktok.com/@a/video/1", "https://vm.tiktok.com/b">>
    /\ ~bulk_results[1].success
    /\ bulk_results[2].success

-----------------------------------------------------------------------------
(* The files and the fields of the records of one batch *)

\* C21: within one batch two different urls that both download successfully
\* never have the same local file path, so that each transcription runs on
\* the video downloaded for its url.
C21_DistinctUrlsDistinctPaths ==
    \A i, j \in SucceededAt :
        download_results[i].url # download_results[j].url
            => download_results[i].filename # download_results[j].filename

\* C22: when a download and its transcription both succeed, the merged
\* ResultRecord keeps every field of the DownloadRecord with its value
\* (url, title, duration, attempts, ...); the transcription only adds fields.
C22_MergeKeepsDownloadFields ==
    Published =>
        \A k \in SucceededAt :
            LET r == session.transcription_results[PlaceOf(k)]
            IN r.transcription_success =>
                  \A f \in DOMAIN download_results[k] :
                      /\ f \in DOMAIN r
                      /\ r[f] = download_results[k][f]

-----------------------------------------------------------------------------
(* The Input tab of main (app.py, lines 149-201): the urls found in a pasted *)
(* text or an uploaded file. The input is a sequence of lines, a line a      *)
(* sequence of tokens separated by blanks.                                   *)

UrlA == <<"https://", "www.", "tiktok.com", "/", "@a/video/1">>

UrlB == <<"https://", "vm.", "tiktok.com", "/", "b">>

InputLines ==
    { <<UrlA>>, <<UrlB>>, <<UrlA, UrlB>>,
      << <<"https://", "youtube.com", "/", "watch">> >>, <<>> }

\* the tokens of the lines, in order
RECURSIVE Flatten(_)
Flatten(lines) == IF lines = <<>> THEN <<>> ELSE Head(lines) \o Flatten(Tail(lines))

\* line.strip() for a line of url_text.split('\n'): its tokens with single
\* blanks between them
RECURSIVE LineString(_)
LineString(line) ==
    IF line = <<>> THEN <<>>
    ELSE IF Len(line) = 1 THEN line[1]
    ELSE line[1] \o <<" ">> \o LineString(Tail(line))

\* line 162: the stripped lines that are not empty
ManualUrls(lines) ==
    LET kept == SelectSeq(lines, LAMBDA line : LineString(line) # <<>>)
    IN [k \in 1..Len(kept) |-> LineString(kept[k])]

\* the elements of a list
Range(l) == {l[k] : k \in 1..Len(l)}

\* list(set(l)): the elements of l once each, in an order the set decides
ListsOfSet(S) ==
    {l \in [1..Cardinality(S) -> S] : Range(l) = S}

\* lines 159-166: "Paste URLs"
PasteUrls ==
    /\ input_method = "none"
    /\ \E lines \in ListsUpTo(InputLines, MaxLines) :
          LET extracted_urls == ExtractUrlsFromText(Flatten(lines))
              manual_urls == ManualUrls(lines)
          IN /\ lines # <<>>
             /\ text' = Flatten(lines)
             /\ extracted' = [valid_urls |-> extracted_urls]
             /\ \E all_urls \in ListsOfSet(Range(extracted_urls \o manual_urls)) :
                   main_urls' = SelectSeq(all_urls, ValidateTiktokUrl)
    /\ input_method' = "Paste URLs"
    /\ UNCHANGED <<fs_vars, dl_vars, obj_vars, tr_vars, app_vars>>
    /\ UNCHANGED <<cleanup_err, bulk_vars, summary, archive, seconds, timestamp>>

\* lines 182-186: "Upload Text File"
UploadTextFile ==
    /\ input_method = "none"
    /\ \E lines \in ListsUpTo(InputLines, MaxLines) :
          LET extracted_urls == ExtractUrlsFromText(Flatten(lines))
          IN /\ text' = Flatten(lines)
             /\ extracted' = [valid_urls |-> extracted_urls]
             /\ main_urls' = SelectSeq(extracted_urls, ValidateTiktokUrl)
    /\ input_method' = "Upload Text File"
    /\ UNCHANGED <<fs_vars, dl_vars, obj_vars, tr_vars, app_vars>>
    /\ UNCHANGED <<cleanup_err, bulk_vars, summary, archive, seconds, timestamp>>

\* the script runs again: line 149, urls = []
RerunMain ==
    /\ input_method # "none"
    /\ input_method' = "none"
    /\ main_urls' = <<>>
    /\ text' = <<>>
    /\ extracted' = None
    /\ UNCHANGED <<fs_vars, dl_vars, obj_vars, tr_vars, app_vars>>
    /\ UNCHANGED <<cleanup_err, bulk_vars, summary, archive, seconds, timestamp>>

NextInput == PasteUrls \/ UploadTextFile \/ RerunMain

SpecInput == InitIdle /\ [][NextInput]_vars

\* C23: in both input modes the url list handed to process_videos has no
\* entry twice and every entry passes validate_tiktok_url, so that no url is
\* downloaded twice in one batch.
C23_NoDuplicateUrlHanded ==
    (input_method # "none" /\ main_urls # <<>>) =>
        /\ \A i, j \in 1..Len(main_urls) : main_urls[i] = main_urls[j] => i = j
        /\ \A i \in 1..Len(main_urls) : ValidateTiktokUrl(main_urls[i])

====
